---- MODULE Spec2Model ----
(***************************************************************************)
(* A model of flocker/node/agents/blockdevice.py: the loopback block       *)
(* device backend (LoopbackBlockDeviceAPI), whose durable state is a        *)
(* directory tree, and the BlockDeviceDeployer built on top of it.          *)
(*                                                                         *)
(* Two specifications share the state of the directory tree:               *)
(*   Spec      every API call is one atomic step (sequential callers);     *)
(*   SpecConc  callers run as processes and every system call of a         *)
(*             handler (listdir, stat, mkdir, rename, losetup) is a step.  *)
(*                                                                         *)
(* Strings: every identifier and host name of the model is ASCII.  In      *)
(* Python 2 an ASCII unicode object and the byte string with the same      *)
(* characters are equal and hash alike, and encode('ascii') and            *)
(* decode('ascii') map one to the other, so one model value stands for     *)
(* both.  uuid4() is modelled as the choice of any identifier that names   *)
(* no file of the tree yet.                                                *)
(***************************************************************************)
EXTENDS Integers, Sequences, FiniteSets, TLC

\* ------------------------------------------------------------------ bounds
\* At most MaxVolumes volumes are ever created under Spec, and at most
\* MaxConcVolumes under SpecConc.
MaxVolumes == 2
MaxConcVolumes == 1

\* The datasets a desired configuration may name under SpecCalc.
MaxDatasets == 2

\* The identifiers uuid4() may return, host names and volume sizes.
Ids == 1..MaxVolumes
Hosts == {"h1", "h2"}
Sizes == {1, 2}

\* Python's None.
None == "None"

\* None as a size (Dataset.maximum_size of a dataset without one): a number
\* here, so that it can be compared with the sizes.
NoSize == 0

VARIABLES
    unattached,   \* <root>/unattached: file name -> file size
    attached,     \* <root>/attached: host directory -> (file name -> file size)
    loops,        \* the kernel's loopback associations
    last,         \* Spec: the call that completed last, and its outcome
    procs,        \* SpecConc: the callers in flight
    directories,  \* the directories of the host besides those above
    filesystems,  \* block device -> type of the filesystem made on it
    mounts,       \* the mount table: <<device, mountpoint, fstype>>
    run           \* SpecRun: the convergence pass and the run it started

fs == <<unattached, attached, loops>>
nodeVars == <<directories, filesystems, mounts, run>>
vars == <<unattached, attached, loops, last, procs, nodeVars>>

\* ------------------------------------------------------------- directories
EmptyDir == [x \in {} |-> 0]

\* The directory `dir` with the entry `name` added or replaced.
WithEntry(dir, name, v) ==
    [x \in (DOMAIN dir) \cup {name} |-> IF x = name THEN v ELSE dir[x]]

\* The directory `dir` with the entry `name` removed.
WithoutEntry(dir, name) == [x \in (DOMAIN dir) \ {name} |-> dir[x]]

\* Every order in which os.listdir may return the names of S.
RECURSIVE Perms(_)
Perms(S) ==
    IF S = {} THEN {<<>>}
    ELSE UNION {{<<x>> \o p : p \in Perms(S \ {x})} : x \in S}

Min(S) == CHOOSE x \in S : \A y \in S : x <= y

\* The names of all volume files of the tree.
AttachedIds(a) == UNION {DOMAIN a[h] : h \in DOMAIN a}
AllIds(u, a) == (DOMAIN u) \cup AttachedIds(a)

\* FilePath.temporarySibling: the name of the file setContent writes before it
\* renames it to <name> (<name> followed by a random suffix and ".new").
TempName(name) == 0 - name

\* The identifiers uuid4() has returned so far: those of the volume files and
\* of the temporary siblings still to be renamed.
IssuedIds(u, a) == {IF n < 0 THEN 0 - n ELSE n : n \in AllIds(u, a)}

\* ----------------------------------------------------------------- records
BlockDeviceVolume(id, size, host) ==
    [blockdevice_id |-> id, size |-> size, host |-> host]

\* What a call ends with: a returned value or a raised exception.
Return(v) == [outcome |-> "return", value |-> v]
Raise(exc, v) == [outcome |-> exc, value |-> v]

\* VolumeException.__init__: the exception carries the identifier.
VolumeException(exc, blockdevice_id) == Raise(exc, blockdevice_id)

\* ------------------------------------------------------ file system calls
\* b'\0' * size: the content create_volume writes; its length is the file size.
ZeroBytes(size) == IF size < 0 THEN 0 ELSE size

\* FilePath.setContent on <root>/unattached/<name>.
setContent(u, name, length) == WithEntry(u, name, length)

\* The os.rename that ends setContent: the temporary sibling becomes <name>.
rename(u, temp, name) ==
    IF temp \in DOMAIN u
    THEN WithEntry(WithoutEntry(u, temp), name, u[temp])
    ELSE u

\* makedirs removing an existing directory before it makes it.
makedirs_Recreate(a, host) ==
    [ok |-> TRUE, attached |-> WithEntry(a, host, EmptyDir)]

\* FilePath.makedirs on <root>/attached/<host>: os.makedirs raises OSError when
\* the directory exists already.
makedirs(a, host) ==
    IF host \in DOMAIN a
    THEN [ok |-> FALSE, attached |-> a]
    ELSE [ok |-> TRUE, attached |-> WithEntry(a, host, EmptyDir)]

\* moveTo renaming the whole directory <root>/unattached to the host directory.
moveTo_WholeDirectory(u, a, name, host) ==
    IF name \in DOMAIN u /\ host \in DOMAIN a
    THEN [ok |-> TRUE,
          unattached |-> EmptyDir,
          attached |-> [a EXCEPT ![host] =
                           [n \in DOMAIN a[host] \cup DOMAIN u |->
                               IF n \in DOMAIN u THEN u[n] ELSE a[host][n]]]]
    ELSE [ok |-> FALSE, unattached |-> u, attached |-> a]

\* moveTo copying the file and leaving the source in place.
moveTo_Copies(u, a, name, host) ==
    IF name \in DOMAIN u /\ host \in DOMAIN a
    THEN [ok |-> TRUE,
          unattached |-> u,
          attached |-> [a EXCEPT ![host] = WithEntry(a[host], name, u[name])]]
    ELSE [ok |-> FALSE, unattached |-> u, attached |-> a]

\* moveTo swallowing the OSError of a missing source, as the makedirs before
\* it swallows its own.
moveTo_IgnoresMissing(u, a, name, host) ==
    IF name \in DOMAIN u /\ host \in DOMAIN a
    THEN [ok |-> TRUE,
          unattached |-> WithoutEntry(u, name),
          attached |-> [a EXCEPT ![host] = WithEntry(a[host], name, u[name])]]
    ELSE [ok |-> TRUE, unattached |-> u, attached |-> a]

\* FilePath.moveTo, an os.rename of <root>/unattached/<name> to
\* <root>/attached/<host>/<name>; OSError when the source is gone.
moveTo(u, a, name, host) ==
    IF name \in DOMAIN u /\ host \in DOMAIN a
    THEN [ok |-> TRUE,
          unattached |-> WithoutEntry(u, name),
          attached |-> [a EXCEPT ![host] = WithEntry(a[host], name, u[name])]]
    ELSE [ok |-> FALSE, unattached |-> u, attached |-> a]

\* The loop devices associated with a backing file, <<host, name>> standing for
\* <root>/attached/<host>/<name>.
Associated(ls, path) == {l.dev : l \in {x \in ls : x.file = path}}

RECURSIVE SortedSeq(_)
SortedSeq(S) == IF S = {} THEN <<>> ELSE <<Min(S)>> \o SortedSeq(S \ {Min(S)})

\* device_for_path: the stripped output of `losetup --associated`, one device
\* per line, as a FilePath.  A locator is the sequence of the lines of that
\* output: <<d>> is /dev/loop<d>; NoDevice is the None returned when the
\* output is empty.
NoDevice == <<>>
device_for_path(ls, path) ==
    IF Associated(ls, path) = {} THEN NoDevice
    ELSE SortedSeq(Associated(ls, path))

\* `losetup --find <file>`: associates the first unused loop device.
losetup_find(ls, path) ==
    LET used == {l.dev : l \in ls}
        free == Min({n \in 0..Cardinality(ls) : n \notin used})
    IN  ls \cup {[dev |-> free, file |-> path]}

\* --------------------------------------------------- LoopbackBlockDeviceAPI
\* The records list_volumes builds from the children of <root>/unattached, in
\* the order listdir gave them.
UnattachedVolumes(u, order) ==
    [i \in 1..Len(order) |-> BlockDeviceVolume(order[i], u[order[i]], None)]

\* HostVolumes without host=host_name.
HostVolumes_NoHost(a, host, order) ==
    [i \in 1..Len(order) |-> BlockDeviceVolume(order[i], a[host][order[i]], None)]

\* ... and from the children of <root>/attached/<host>.
HostVolumes(a, host, order) ==
    [i \in 1..Len(order) |-> BlockDeviceVolume(order[i], a[host][order[i]], host)]

RECURSIVE AttachedListings(_, _)
AttachedListings(a, hostorder) ==
    IF hostorder = <<>> THEN {<<>>}
    ELSE LET host == Head(hostorder)
         IN  {HostVolumes(a, host, o) \o rest :
                 o \in Perms(DOMAIN a[host]),
                 rest \in AttachedListings(a, Tail(hostorder))}

\* list_volumes on a tree nobody changes meanwhile: every list it may return
\* (one per order of the directory listings), unattached volumes first.
list_volumes(u, a) ==
    UNION {{UnattachedVolumes(u, o) \o rest :
               o \in Perms(DOMAIN u), rest \in AttachedListings(a, ho)} :
           ho \in Perms(DOMAIN a)}

\* _get without its raise: falls off the loop and returns None, whose .host
\* the caller then reads.
_get_ReturnsNone(volumes, blockdevice_id) ==
    LET hits == {i \in 1..Len(volumes) :
                    volumes[i].blockdevice_id = blockdevice_id}
    IN  IF hits = {}
        THEN Raise("AttributeError", None)
        ELSE Return(volumes[Min(hits)])

\* _get: the first listed volume with the identifier, else UnknownVolume.
_get(volumes, blockdevice_id) ==
    LET hits == {i \in 1..Len(volumes) :
                    volumes[i].blockdevice_id = blockdevice_id}
    IN  IF hits = {}
        THEN VolumeException("UnknownVolume", blockdevice_id)
        ELSE Return(volumes[Min(hits)])

\* create_volume naming the volume after its size, not after uuid4().
create_volume_SizeAsName(u, id, size) ==
    LET volume == BlockDeviceVolume(size, size, None)
    IN  [result |-> Return(volume),
         unattached |-> setContent(u, volume.blockdevice_id,
                                   ZeroBytes(volume.size))]

\* create_volume emptying <root>/unattached before it writes its file.
create_volume_Overwrites(u, id, size) ==
    LET volume == BlockDeviceVolume(id, size, None)
    IN  [result |-> Return(volume),
         unattached |-> setContent(EmptyDir, volume.blockdevice_id,
                                   ZeroBytes(volume.size))]

\* create_volume writing an empty file instead of `size` zero bytes.
create_volume_EmptyFile(u, id, size) ==
    LET volume == BlockDeviceVolume(id, size, None)
    IN  [result |-> Return(volume),
         unattached |-> setContent(u, volume.blockdevice_id, 0)]

\* create_volume, with `id` the identifier uuid4() returned.  The field
\* BlockDeviceVolume.size takes an int only: size=None raises TypeError before
\* any file is written.
create_volume(u, id, size) ==
    IF size = NoSize
    THEN [result |-> Raise("TypeError", None), unattached |-> u]
    ELSE LET volume == BlockDeviceVolume(id, size, None)
         IN  [result |-> Return(volume),
              unattached |-> setContent(u, volume.blockdevice_id,
                                        ZeroBytes(volume.size))]

\* attach_volume returning the record it looked up instead of the updated one.
attach_volume_ReturnsLookedUp(volumes, u, a, blockdevice_id, host) ==
    LET got == _get(volumes, blockdevice_id)
    IN  IF got.outcome # "return"
        THEN [result |-> got, unattached |-> u, attached |-> a]
        ELSE IF got.value.host = None
        THEN LET made == makedirs(a, host)
                 moved == moveTo(u, made.attached, blockdevice_id, host)
             IN  [result |-> IF moved.ok THEN Return(got.value)
                             ELSE Raise("OSError", blockdevice_id),
                  unattached |-> moved.unattached,
                  attached |-> moved.attached]
        ELSE [result |-> VolumeException("AlreadyAttachedVolume", blockdevice_id),
              unattached |-> u, attached |-> a]

\* attach_volume refusing only a volume attached to the requested host.
attach_volume_SameHostOnly(volumes, u, a, blockdevice_id, host) ==
    LET got == _get(volumes, blockdevice_id)
    IN  IF got.outcome # "return"
        THEN [result |-> got, unattached |-> u, attached |-> a]
        ELSE IF got.value.host # host
        THEN LET attached_volume == [got.value EXCEPT !.host = host]
                 made == makedirs(a, host)
                 moved == moveTo(u, made.attached, blockdevice_id, host)
             IN  [result |-> IF moved.ok THEN Return(attached_volume)
                             ELSE Raise("OSError", blockdevice_id),
                  unattached |-> moved.unattached,
                  attached |-> moved.attached]
        ELSE [result |-> VolumeException("AlreadyAttachedVolume", blockdevice_id),
              unattached |-> u, attached |-> a]

\* attach_volume without the try/except around host_directory.makedirs().
attach_volume_MakedirsRaises(volumes, u, a, blockdevice_id, host) ==
    LET got == _get(volumes, blockdevice_id)
    IN  IF got.outcome # "return"
        THEN [result |-> got, unattached |-> u, attached |-> a]
        ELSE IF got.value.host = None
        THEN LET attached_volume == [got.value EXCEPT !.host = host]
                 made == makedirs(a, host)
                 moved == moveTo(u, made.attached, blockdevice_id, host)
             IN  IF ~made.ok
                 THEN [result |-> Raise("OSError", host),
                       unattached |-> u, attached |-> a]
                 ELSE [result |-> IF moved.ok THEN Return(attached_volume)
                                  ELSE Raise("OSError", blockdevice_id),
                       unattached |-> moved.unattached,
                       attached |-> moved.attached]
        ELSE [result |-> VolumeException("AlreadyAttachedVolume", blockdevice_id),
              unattached |-> u, attached |-> a]

\* attach_volume, with `volumes` the list its _get obtained.
attach_volume(volumes, u, a, blockdevice_id, host) ==
    LET got == _get(volumes, blockdevice_id)
    IN  IF got.outcome # "return"
        THEN [result |-> got, unattached |-> u, attached |-> a]
        ELSE IF got.value.host = None
        THEN LET attached_volume == [got.value EXCEPT !.host = host]
                 made == makedirs(a, host)
                 moved == moveTo(u, made.attached, blockdevice_id, host)
             IN  [result |-> IF moved.ok THEN Return(attached_volume)
                             ELSE Raise("OSError", blockdevice_id),
                  unattached |-> moved.unattached,
                  attached |-> moved.attached]
        ELSE [result |-> VolumeException("AlreadyAttachedVolume", blockdevice_id),
              unattached |-> u, attached |-> a]

\* get_device_path without the test of volume.host.
get_device_path_NoHostCheck(volumes, ls, blockdevice_id) ==
    LET got == _get(volumes, blockdevice_id)
    IN  IF got.outcome # "return"
        THEN [result |-> got, loops |-> ls]
        ELSE LET volume_path == <<got.value.host, got.value.blockdevice_id>>
                 device_path == device_for_path(ls, volume_path)
                 after == IF device_path = NoDevice
                          THEN losetup_find(ls, volume_path) ELSE ls
             IN  [result |-> Return(device_for_path(after, volume_path)),
                  loops |-> after]

\* get_device_path without the test for an existing association.
get_device_path_AlwaysFind(volumes, ls, blockdevice_id) ==
    LET got == _get(volumes, blockdevice_id)
    IN  IF got.outcome # "return"
        THEN [result |-> got, loops |-> ls]
        ELSE IF got.value.host # None
        THEN LET volume_path == <<got.value.host, got.value.blockdevice_id>>
                 after == losetup_find(ls, volume_path)
             IN  [result |-> Return(device_for_path(after, volume_path)),
                  loops |-> after]
        ELSE [result |-> VolumeException("UnattachedVolume", blockdevice_id),
              loops |-> ls]

\* get_device_path, with `volumes` the list its _get obtained.
get_device_path(volumes, ls, blockdevice_id) ==
    LET got == _get(volumes, blockdevice_id)
    IN  IF got.outcome # "return"
        THEN [result |-> got, loops |-> ls]
        ELSE IF got.value.host # None
        THEN LET volume_path == <<got.value.host, got.value.blockdevice_id>>
                 device_path == device_for_path(ls, volume_path)
                 after == IF device_path = NoDevice
                          THEN losetup_find(ls, volume_path) ELSE ls
             IN  [result |-> Return(device_for_path(after, volume_path)),
                  loops |-> after]
        ELSE [result |-> VolumeException("UnattachedVolume", blockdevice_id),
              loops |-> ls]

\* ------------------------------------------------------ BlockDeviceDeployer
\* flocker.control records, as this module builds them.
Dataset(dataset_id) == [dataset_id |-> dataset_id, maximum_size |-> NoSize]
Manifestation(dataset, primary) == [dataset |-> dataset, primary |-> primary]
NodeState(hostname, manifestations, paths) ==
    [hostname |-> hostname, running |-> <<>>, not_running |-> <<>>,
     manifestations |-> manifestations, paths |-> paths]

\* A Dataset with a maximum size.
SizedDataset(dataset_id, maximum_size) ==
    [dataset_id |-> dataset_id, maximum_size |-> maximum_size]

\* A node of a Deployment: `manifestations` maps dataset ids to Manifestations.
Node(hostname, manifestations) ==
    [hostname |-> hostname, manifestations |-> manifestations]
Deployment(nodes) == [nodes |-> nodes]

\* Equality (and hashing) of two Manifestations, as Python's set difference
\* applies it: by dataset id and primary flag.
ManifestationEq(m1, m2) ==
    /\ m1.dataset.dataset_id = m2.dataset.dataset_id
    /\ m1.primary = m2.primary

\* flocker.node.InParallel.
InParallel(changes) == [changes |-> changes]

\* The state change CreateBlockDeviceDataset(dataset=..., mountpoint=...).
CreateBlockDeviceDataset(dataset, mountpoint) ==
    [action |-> "CreateBlockDeviceDataset",
     dataset |-> dataset, mountpoint |-> mountpoint]

\* BlockDeviceDeployer._mountroot, FilePath(b"/flocker"), as path segments.
_mountroot == <<"flocker">>

_manifestation_from_volume(volume) ==
    Manifestation(Dataset(volume.blockdevice_id), TRUE)

\* _mountpath_for_manifestation without the .child(dataset_id).
_mountpath_for_manifestation_Root(manifestation) == _mountroot

_mountpath_for_manifestation(manifestation) ==
    Append(_mountroot, manifestation.dataset.dataset_id)

\* discover_local_state keeping every attached volume, whatever its host.
discover_local_state_AnyHost(volumes, hostname) ==
    LET local == SelectSeq(volumes, LAMBDA v : v.host # None)
        manifestations ==
            [i \in 1..Len(local) |-> _manifestation_from_volume(local[i])]
        paths ==
            [d \in {manifestations[i].dataset.dataset_id :
                       i \in 1..Len(manifestations)} |->
                _mountpath_for_manifestation(
                    Manifestation(Dataset(d), TRUE))]
    IN  Return(NodeState(hostname, manifestations, paths))

\* discover_local_state leaving `paths` empty.
discover_local_state_NoPaths(volumes, hostname) ==
    LET local == SelectSeq(volumes, LAMBDA v : v.host = hostname)
        manifestations ==
            [i \in 1..Len(local) |-> _manifestation_from_volume(local[i])]
    IN  Return(NodeState(hostname, manifestations, EmptyDir))

\* discover_local_state answering from the state of the pass before, once
\* that pass has found a manifestation.
discover_local_state_Cached(volumes, hostname) ==
    IF run.local_state.manifestations # <<>>
    THEN Return(run.local_state)
    ELSE LET local == SelectSeq(volumes, LAMBDA v : v.host = hostname)
             manifestations ==
                 [i \in 1..Len(local) |-> _manifestation_from_volume(local[i])]
             paths ==
                 [d \in {manifestations[i].dataset.dataset_id :
                            i \in 1..Len(manifestations)} |->
                     _mountpath_for_manifestation(
                         Manifestation(Dataset(d), TRUE))]
         IN  Return(NodeState(hostname, manifestations, paths))

\* discover_local_state of the deployer named `hostname`, with `volumes` the
\* list list_volumes returned.
discover_local_state(volumes, hostname) ==
    LET local == SelectSeq(volumes, LAMBDA v : v.host = hostname)
        manifestations ==
            [i \in 1..Len(local) |-> _manifestation_from_volume(local[i])]
        paths ==
            [d \in {manifestations[i].dataset.dataset_id :
                       i \in 1..Len(manifestations)} |->
                _mountpath_for_manifestation(
                    Manifestation(Dataset(d), TRUE))]
    IN  Return(NodeState(hostname, manifestations, paths))

\* The elements of a sequence.
Range(seq) == {seq[i] : i \in 1..Len(seq)}

\* potential_configs taking the nodes of every host.
potential_configs_AnyNode(hostname, desired_configuration) ==
    desired_configuration.nodes

\* calculate_necessary_state_changes: the nodes of the desired configuration
\* with the deployer's hostname.
potential_configs(hostname, desired_configuration) ==
    {node \in desired_configuration.nodes : node.hostname = hostname}

\* ... and set(this_node_config.manifestations.values()) of each.  (A Node
\* keys its manifestations by dataset id, so no two values are equal.)
configured_manifestations(nodes) ==
    UNION {{node.manifestations[k] : k \in DOMAIN node.manifestations} :
           node \in nodes}

\* to_create without the difference: every configured manifestation.
to_create_NoDifference(configured, manifestations) == configured

\* to_create as a symmetric difference.
to_create_SymmetricDifference(configured, manifestations) ==
    {m \in configured :
        \A l \in Range(manifestations) : ~ManifestationEq(m, l)}
    \cup {l \in Range(manifestations) :
             \A m \in configured : ~ManifestationEq(m, l)}

\* configured.difference(local_state.manifestations).
to_create(configured, manifestations) ==
    {m \in configured :
        \A l \in Range(manifestations) : ~ManifestationEq(m, l)}

\* The list `creates`, for one order of iteration over the set to_create.
creates(order) ==
    [i \in 1..Len(order) |->
        CreateBlockDeviceDataset(order[i].dataset,
                                 _mountpath_for_manifestation(order[i]))]

\* calculate_necessary_state_changes also leaving out what the cluster state
\* reports for this host.
calculate_necessary_state_changes_ClusterAware(hostname, local_state, desired_configuration, current_cluster_state) ==
    LET configs == potential_configs(hostname, desired_configuration)
        there == configured_manifestations(
                     potential_configs(hostname, current_cluster_state))
        known == local_state.manifestations
                     \o (CHOOSE order \in Perms(there) : TRUE)
    IN  IF Cardinality(configs) > 1 THEN {Raise("ValueError", None)}
        ELSE {Return(InParallel(creates(order))) :
                 order \in Perms(to_create(configured_manifestations(configs),
                                           known))}

\* calculate_necessary_state_changes: every batch it may return, one per order
\* of iteration over to_create; ValueError when the unpacking of
\* potential_configs finds more than one node.  With no node of that hostname,
\* Node(hostname=None) has no manifestations.
calculate_necessary_state_changes(hostname, local_state, desired_configuration, current_cluster_state) ==
    LET configs == potential_configs(hostname, desired_configuration)
    IN  IF Cardinality(configs) > 1 THEN {Raise("ValueError", None)}
        ELSE {Return(InParallel(creates(order))) :
                 order \in Perms(to_create(configured_manifestations(configs),
                                           local_state.manifestations))}

\* ------------------------------------------- CreateBlockDeviceDataset.run
\* The root directory of the backend, <root>/unattached and <root>/attached:
\* the directories from_path leaves.
RootDirectories ==
    {<<"root">>, <<"root", "unattached">>, <<"root", "attached">>}

\* FilePath.makedirs on a directory of `directories`: os.makedirs makes the
\* missing parents too and raises OSError when the directory exists.
makedirs_path(dirs, path) ==
    IF path \in dirs
    THEN [ok |-> FALSE, directories |-> dirs]
    ELSE [ok |-> TRUE,
          directories |-> dirs \cup {SubSeq(path, 1, n) : n \in 1..Len(path)}]

\* _initialise_directories removing what is there before making the two
\* directories.
_initialise_directories_Recreate(dirs, u, a) ==
    [directories |-> dirs \cup RootDirectories,
     unattached |-> EmptyDir, attached |-> EmptyDir]

\* _initialise_directories: makedirs of <root>/unattached, then of
\* <root>/attached, the OSError of either swallowed.  The files below them
\* (`u`, `a`) are not touched.
_initialise_directories(dirs, u, a) ==
    LET first == makedirs_path(dirs, <<"root", "unattached">>)
        second == makedirs_path(first.directories, <<"root", "attached">>)
    IN  [directories |-> second.directories, unattached |-> u, attached |-> a]

\* from_path: the instance, whose attributes are the root path and the two
\* paths derived from it, and the tree it leaves.
from_path(dirs, u, a) ==
    LET after == _initialise_directories(dirs, u, a)
    IN  [api |-> [root_path |-> <<"root">>,
                  _unattached_directory |-> <<"root", "unattached">>,
                  _attached_directory |-> <<"root", "attached">>],
         directories |-> after.directories,
         unattached |-> after.unattached, attached |-> after.attached]

\* `mkfs -t ext4 <device>`.
mkfs(fss, fstype, device) == WithEntry(fss, device, fstype)

\* `mount <device> <mountpoint>`: the filesystem type is the one found on the
\* device.
mount(mts, fss, device, mountpoint) ==
    mts \cup {<<device, mountpoint, fss[device]>>}

\* The steps of run, in the order of its statements.
RunSteps ==
    <<"create_volume", "attach_volume", "get_device_path", "makedirs",
      "mkfs", "mount">>

StepAfter(step) ==
    LET i == CHOOSE i \in 1..Len(RunSteps) : RunSteps[i] = step
    IN  IF i < Len(RunSteps) THEN RunSteps[i + 1] ELSE "succeeded"

\* run going on with the next statement after an exception.
run_continue_IgnoreFailure(step, ok) == StepAfter(step)

\* run with `return succeed(None)` right after mkfs.
run_continue_SkipMount(step, ok) ==
    IF ok THEN (IF step = "mkfs" THEN "succeeded" ELSE StepAfter(step))
    ELSE "failed"

\* run swallowing the exception of mkfs or mount and returning succeed(None).
run_continue_SwallowsFailure(step, ok) ==
    IF ok THEN StepAfter(step)
    ELSE IF step \in {"mkfs", "mount"} THEN "succeeded" ELSE "failed"

\* Where run is after the statement `step`: at the next statement when it
\* returned, out of run with the exception when it raised; after mount,
\* add_success_fields and `return succeed(None)`.
run_continue(step, ok) ==
    IF ok THEN StepAfter(step) ELSE "failed"

\* ---------------------------------------------------------------- Spec
\* The record of a completed call.
Call(op, blockdevice_id, host, size, result) ==
    [op |-> op, blockdevice_id |-> blockdevice_id, host |-> host,
     size |-> size, outcome |-> result.outcome, value |-> result.value]

NoCall == [op |-> None, blockdevice_id |-> None, host |-> None,
           size |-> None, outcome |-> None, value |-> None]

\* The callers of SpecConc, the identifiers and sizes of their calls, and a
\* caller with no call in progress.
Procs == {1, 2}
ConcIds == 1..MaxConcVolumes
ConcSizes == {1}

IdleProc ==
    [pc |-> "idle", op |-> None, blockdevice_id |-> None, host |-> None,
     size |-> None, todo |-> {}, hosts |-> {}, volumes |-> <<>>,
     found |-> None, unattached_at_call |-> FALSE,
     outcome |-> None, value |-> None]

NoProcs == [p \in Procs |-> IdleProc]

\* The deployer of SpecRun, another host of the backend, and the dataset the
\* desired configuration gives the deployer's host.  The control service issued
\* the dataset's identifier: uuid4() in create_volume does not return it.
DeployerHost == "h1"
ForeignHost == "h2"
RunDatasetId == MaxVolumes + 1

\* The `volume` of a run that has not created one yet.
NoVolume == BlockDeviceVolume(NoSize, NoSize, None)

\* No convergence pass yet.
NoRun ==
    [pc |-> "idle", desired |-> Deployment({}), previous |-> None,
     local_state |-> NodeState(DeployerHost, <<>>, EmptyDir),
     changes |-> <<>>, dataset |-> Dataset(RunDatasetId),
     mountpoint |-> <<>>, prior |-> {}, steps |-> <<>>,
     volume |-> NoVolume, device |-> NoDevice, mountpoint_existed |-> FALSE,
     failed_before |-> FALSE, done |-> <<>>]

Init ==
    /\ unattached = EmptyDir
    /\ attached = EmptyDir
    /\ loops = {}
    /\ last = NoCall
    /\ procs = NoProcs
    /\ directories = RootDirectories
    /\ filesystems = EmptyDir
    /\ mounts = {}
    /\ run = NoRun

CreateVolume(size) ==
    /\ Cardinality(IssuedIds(unattached, attached)) < MaxVolumes
    /\ \E id \in Ids \ IssuedIds(unattached, attached) :
         LET r == create_volume(unattached, id, size)
         IN  /\ unattached' = r.unattached
             /\ last' = Call("create_volume", None, None, size, r.result)
    /\ UNCHANGED <<attached, loops, procs, nodeVars>>

AttachVolume(blockdevice_id, host) ==
    /\ \E volumes \in list_volumes(unattached, attached) :
         LET r == attach_volume(volumes, unattached, attached,
                                blockdevice_id, host)
         IN  /\ unattached' = r.unattached
             /\ attached' = r.attached
             /\ last' = Call("attach_volume", blockdevice_id, host, None,
                             r.result)
    /\ UNCHANGED <<loops, procs, nodeVars>>

GetDevicePath(blockdevice_id) ==
    /\ \E volumes \in list_volumes(unattached, attached) :
         LET r == get_device_path(volumes, loops, blockdevice_id)
         IN  /\ loops' = r.loops
             /\ last' = Call("get_device_path", blockdevice_id, None, None,
                             r.result)
    /\ UNCHANGED <<unattached, attached, procs, nodeVars>>

ListVolumes ==
    /\ \E volumes \in list_volumes(unattached, attached) :
         last' = Call("list_volumes", None, None, None, Return(volumes))
    /\ UNCHANGED <<unattached, attached, loops, procs, nodeVars>>

DiscoverLocalState(hostname) ==
    /\ \E volumes \in list_volumes(unattached, attached) :
         last' = Call("discover_local_state", None, hostname, None,
                      discover_local_state(volumes, hostname))
    /\ UNCHANGED <<unattached, attached, loops, procs, nodeVars>>

Next ==
    \/ \E size \in Sizes : CreateVolume(size)
    \/ \E id \in Ids, host \in Hosts : AttachVolume(id, host)
    \/ \E id \in Ids : GetDevicePath(id)
    \/ ListVolumes
    \/ \E hostname \in Hosts : DiscoverLocalState(hostname)

Spec == Init /\ [][Next]_vars

\* ------------------------------------------------------------- SpecConc
\* Callers run concurrently; a step is one system call of a handler together
\* with the Python code that follows it up to the next system call.

\* The caller's record once its call has ended with `result`.
Finished(pr, result) ==
    [pr EXCEPT !.pc = "idle", !.todo = {}, !.hosts = {}, !.volumes = <<>>,
               !.found = None,
               !.outcome = result.outcome, !.value = result.value]

\* The caller's record when its list_volumes has returned `volumes`: the rest
\* of _get and of the handler up to its next system call.
Listed(pr, volumes) ==
    LET got == _get(volumes, pr.blockdevice_id)
        cleared == [pr EXCEPT !.todo = {}, !.hosts = {}, !.volumes = <<>>]
    IN  IF pr.op = "list_volumes" THEN Finished(pr, Return(volumes))
        ELSE IF got.outcome # "return" THEN Finished(pr, got)
        ELSE IF pr.op = "attach_volume"
        THEN IF got.value.host = None
             THEN [cleared EXCEPT !.pc = "makedirs", !.found = got.value]
             ELSE Finished(pr, VolumeException("AlreadyAttachedVolume",
                                               pr.blockdevice_id))
        ELSE IF got.value.host # None
             THEN [cleared EXCEPT !.pc = "device_for_path", !.found = got.value]
             ELSE Finished(pr, VolumeException("UnattachedVolume",
                                               pr.blockdevice_id))

\* A call of list_volumes, attach_volume or get_device_path begins: each
\* starts with list_volumes, whose first system call lists <root>/unattached.
ChildrenUnattached(p, op, blockdevice_id, host) ==
    /\ procs[p].pc = "idle"
    /\ procs' = [procs EXCEPT ![p] =
          [IdleProc EXCEPT
              !.pc = IF DOMAIN unattached = {} THEN "children_attached"
                     ELSE "getsize_unattached",
              !.op = op, !.blockdevice_id = blockdevice_id, !.host = host,
              !.todo = DOMAIN unattached,
              !.unattached_at_call =
                  (op # "list_volumes" /\ blockdevice_id \in DOMAIN unattached)]]
    /\ UNCHANGED <<unattached, attached, loops, last, nodeVars>>

\* child.getsize() on the next listed child of <root>/unattached: OSError
\* when the file is no longer there.
GetsizeUnattached(p) ==
    /\ procs[p].pc = "getsize_unattached"
    /\ \E name \in procs[p].todo :
         procs' = [procs EXCEPT ![p] =
            IF name \in DOMAIN unattached
            THEN [@ EXCEPT
                    !.volumes = Append(@, BlockDeviceVolume(
                                              name, unattached[name], None)),
                    !.todo = @ \ {name},
                    !.pc = IF procs[p].todo = {name} THEN "children_attached"
                           ELSE "getsize_unattached"]
            ELSE Finished(@, Raise("OSError", name))]
    /\ UNCHANGED <<unattached, attached, loops, last, nodeVars>>

\* The listing of <root>/attached.
ChildrenAttached(p) ==
    /\ procs[p].pc = "children_attached"
    /\ procs' = [procs EXCEPT ![p] =
          IF DOMAIN attached = {} THEN Listed(@, @.volumes)
          ELSE [@ EXCEPT !.pc = "children_host", !.hosts = DOMAIN attached]]
    /\ UNCHANGED <<unattached, attached, loops, last, nodeVars>>

\* The listing of the next host directory and the getsize() of its children
\* (no file ever leaves a host directory, so these cannot fail).
ChildrenHost(p) ==
    /\ procs[p].pc = "children_host"
    /\ \E host \in procs[p].hosts :
       \E order \in Perms(DOMAIN attached[host]) :
         LET volumes == procs[p].volumes \o HostVolumes(attached, host, order)
         IN  procs' = [procs EXCEPT ![p] =
                IF procs[p].hosts = {host} THEN Listed(@, volumes)
                ELSE [@ EXCEPT !.volumes = volumes, !.hosts = @ \ {host}]]
    /\ UNCHANGED <<unattached, attached, loops, last, nodeVars>>

\* attach_volume: host_directory.makedirs(), its OSError swallowed.
Makedirs(p) ==
    /\ procs[p].pc = "makedirs"
    /\ attached' = makedirs(attached, procs[p].host).attached
    /\ procs' = [procs EXCEPT ![p].pc = "moveTo"]
    /\ UNCHANGED <<unattached, loops, last, nodeVars>>

\* attach_volume: old_path.moveTo(...) and the return.
MoveTo(p) ==
    /\ procs[p].pc = "moveTo"
    /\ LET moved == moveTo(unattached, attached, procs[p].blockdevice_id,
                           procs[p].host)
           attached_volume == [procs[p].found EXCEPT !.host = procs[p].host]
       IN  /\ unattached' = moved.unattached
           /\ attached' = moved.attached
           /\ procs' = [procs EXCEPT ![p] =
                 Finished(@, IF moved.ok THEN Return(attached_volume)
                             ELSE Raise("OSError", procs[p].blockdevice_id))]
    /\ UNCHANGED <<loops, last, nodeVars>>

\* get_device_path: the first device_for_path and the test of its result.
DeviceForPath(p) ==
    /\ procs[p].pc = "device_for_path"
    /\ LET volume_path == <<procs[p].found.host, procs[p].found.blockdevice_id>>
           device_path == device_for_path(loops, volume_path)
       IN  procs' = [procs EXCEPT ![p].pc =
              IF device_path = NoDevice THEN "losetup_find" ELSE "return_device"]
    /\ UNCHANGED <<unattached, attached, loops, last, nodeVars>>

\* get_device_path: losetup --find.
LosetupFind(p) ==
    /\ procs[p].pc = "losetup_find"
    /\ loops' = losetup_find(
          loops, <<procs[p].found.host, procs[p].found.blockdevice_id>>)
    /\ procs' = [procs EXCEPT ![p].pc = "return_device"]
    /\ UNCHANGED <<unattached, attached, last, nodeVars>>

\* get_device_path: the device_for_path whose result is returned.
ReturnDevice(p) ==
    /\ procs[p].pc = "return_device"
    /\ procs' = [procs EXCEPT ![p] =
          Finished(@, Return(device_for_path(
              loops, <<procs[p].found.host, procs[p].found.blockdevice_id>>)))]
    /\ UNCHANGED <<unattached, attached, loops, last, nodeVars>>

\* create_volume begins: setContent writes the temporary sibling.
WriteContent(p, size) ==
    /\ procs[p].pc = "idle"
    /\ Cardinality(IssuedIds(unattached, attached)) < MaxConcVolumes
    /\ \E id \in ConcIds \ IssuedIds(unattached, attached) :
         /\ unattached' = setContent(unattached, TempName(id), ZeroBytes(size))
         /\ procs' = [procs EXCEPT ![p] =
               [IdleProc EXCEPT !.pc = "rename", !.op = "create_volume",
                                !.size = size,
                                !.found = BlockDeviceVolume(id, size, None)]]
    /\ UNCHANGED <<attached, loops, last, nodeVars>>

\* create_volume: setContent renames the sibling, and the volume is returned.
RenameContent(p) ==
    /\ procs[p].pc = "rename"
    /\ unattached' = rename(unattached,
                            TempName(procs[p].found.blockdevice_id),
                            procs[p].found.blockdevice_id)
    /\ procs' = [procs EXCEPT ![p] = Finished(@, Return(procs[p].found))]
    /\ UNCHANGED <<attached, loops, last, nodeVars>>

NextConc ==
    \E p \in Procs :
        \/ ChildrenUnattached(p, "list_volumes", None, None)
        \/ \E id \in ConcIds, host \in Hosts :
              ChildrenUnattached(p, "attach_volume", id, host)
        \/ \E id \in ConcIds :
              ChildrenUnattached(p, "get_device_path", id, None)
        \/ GetsizeUnattached(p)
        \/ ChildrenAttached(p)
        \/ ChildrenHost(p)
        \/ Makedirs(p)
        \/ MoveTo(p)
        \/ DeviceForPath(p)
        \/ LosetupFind(p)
        \/ ReturnDevice(p)
        \/ \E size \in ConcSizes : WriteContent(p, size)
        \/ RenameContent(p)

SpecConc == Init /\ [][NextConc]_vars

\* ------------------------------------------------------------- SpecCalc
\* calculate_necessary_state_changes as a function of its arguments: the
\* initial states draw them, the one action applies it.
DatasetIds == 1..MaxDatasets

\* What a node may be configured with for a dataset: a primary of a dataset
\* without or with a maximum size, or a replica.
ConfigurableManifestations ==
    UNION {{Manifestation(Dataset(d), TRUE),
            Manifestation(SizedDataset(d, 1), TRUE),
            Manifestation(Dataset(d), FALSE)} : d \in DatasetIds}

NodeConfigs ==
    UNION {{f \in [S -> ConfigurableManifestations] :
               \A d \in S : f[d].dataset.dataset_id = d} :
           S \in SUBSET DatasetIds}

\* Deployments with at most one node per hostname.
Deployments ==
    {Deployment({Node(h, config[h]) : h \in present}) :
        present \in SUBSET Hosts, config \in [Hosts -> NodeConfigs]}

\* The local states: per dataset no manifestation, a primary or a replica.
LocalManifestations ==
    {ms \in SUBSET {Manifestation(Dataset(d), primary) :
                       d \in DatasetIds, primary \in BOOLEAN} :
        \A m1, m2 \in ms :
            m1.dataset.dataset_id = m2.dataset.dataset_id => m1 = m2}

LocalStates(hostname) ==
    {NodeState(hostname, CHOOSE order \in Perms(ms) : TRUE,
               [d \in {m.dataset.dataset_id : m \in ms} |->
                   Append(_mountroot, d)]) :
        ms \in LocalManifestations}

ClusterStates ==
    {Deployment({}),
     Deployment({Node(h, [d \in DatasetIds |->
                             Manifestation(Dataset(d), TRUE)]) : h \in Hosts})}

InitCalc ==
    /\ unattached = EmptyDir
    /\ attached = EmptyDir
    /\ loops = {}
    /\ procs = NoProcs
    /\ directories = RootDirectories
    /\ filesystems = EmptyDir
    /\ mounts = {}
    /\ run = NoRun
    /\ \E hostname \in Hosts :
       \E local_state \in LocalStates(hostname),
          desired_configuration \in Deployments,
          current_cluster_state \in ClusterStates :
            last = [op |-> "arguments", hostname |-> hostname,
                    local_state |-> local_state,
                    desired_configuration |-> desired_configuration,
                    current_cluster_state |-> current_cluster_state,
                    outcome |-> None, value |-> None]

CalculateNecessaryStateChanges ==
    /\ last.op = "arguments"
    /\ \E r \in calculate_necessary_state_changes(
                    last.hostname, last.local_state,
                    last.desired_configuration, last.current_cluster_state) :
         last' = [last EXCEPT !.op = "calculate_necessary_state_changes",
                              !.outcome = r.outcome, !.value = r.value]
    /\ UNCHANGED <<unattached, attached, loops, procs, nodeVars>>

NextCalc == CalculateNecessaryStateChanges

SpecCalc == InitCalc /\ [][NextCalc]_vars

\* -------------------------------------------------------------- SpecRun
\* One deployer converging its host towards a desired configuration of one
\* dataset: each pass discovers, calculates and, if the batch holds a change,
\* runs it, one statement of run per step.  Another host's client may attach
\* volumes of the same backend meanwhile.
RunConfigurations ==
    {Deployment({Node(DeployerHost,
                      [d \in {RunDatasetId} |->
                          Manifestation(SizedDataset(d, size), TRUE)])}) :
        size \in Sizes \cup {NoSize}}

InitRun ==
    /\ unattached = EmptyDir
    /\ attached = EmptyDir
    /\ loops = {}
    /\ last = NoCall
    /\ procs = NoProcs
    /\ directories = RootDirectories
    /\ filesystems = EmptyDir
    /\ mounts = {}
    /\ \E desired \in RunConfigurations :
         run = [NoRun EXCEPT !.desired = desired]

\* The statement of run that raised, if the run failed.
FailedAt(r) ==
    IF r.pc = "failed" THEN r.steps[Len(r.steps)].step ELSE r.pc

Stepped(step, ok) == Append(run.steps, [step |-> step, ok |-> ok])

\* A convergence pass, once no run is in progress: discover_local_state, then
\* calculate_necessary_state_changes, then the start of the run of the change.
Converge ==
    /\ run.pc \in {"idle", "succeeded", "failed"}
    /\ \E volumes \in list_volumes(unattached, attached) :
         LET local_state == discover_local_state(volumes, DeployerHost).value
         IN  \E r \in calculate_necessary_state_changes(
                          DeployerHost, local_state, run.desired,
                          Deployment({})) :
               LET changes == r.value.changes
               IN  run' = IF changes = <<>>
                          THEN [run EXCEPT !.pc = "idle",
                                           !.previous = FailedAt(run),
                                           !.failed_before =
                                               @ \/ run.pc = "failed",
                                           !.local_state = local_state,
                                           !.changes = changes]
                          ELSE [run EXCEPT !.pc = RunSteps[1],
                                           !.previous = FailedAt(run),
                                           !.failed_before =
                                               @ \/ run.pc = "failed",
                                           !.local_state = local_state,
                                           !.changes = changes,
                                           !.dataset = changes[1].dataset,
                                           !.mountpoint = changes[1].mountpoint,
                                           !.prior = AllIds(unattached, attached),
                                           !.steps = <<>>,
                                           !.volume = NoVolume,
                                           !.device = NoDevice,
                                           !.mountpoint_existed = FALSE]
    /\ UNCHANGED <<fs, last, procs, directories, filesystems, mounts>>

\* volume = api.create_volume(self.dataset.maximum_size)
RunCreateVolume ==
    /\ run.pc = "create_volume"
    /\ Cardinality(IssuedIds(unattached, attached)) < MaxVolumes
    /\ \E id \in Ids \ IssuedIds(unattached, attached) :
         LET r == create_volume(unattached, id, run.dataset.maximum_size)
             ok == r.result.outcome = "return"
         IN  /\ unattached' = r.unattached
             /\ run' = [run EXCEPT !.pc = run_continue("create_volume", ok),
                                   !.steps = Stepped("create_volume", ok),
                                   !.volume = IF ok THEN r.result.value
                                              ELSE @]
    /\ UNCHANGED <<attached, loops, last, procs,
                   directories, filesystems, mounts>>

\* volume = api.attach_volume(volume.blockdevice_id, deployer.hostname)
RunAttachVolume ==
    /\ run.pc = "attach_volume"
    /\ \E volumes \in list_volumes(unattached, attached) :
         LET r == attach_volume(volumes, unattached, attached,
                                run.volume.blockdevice_id, DeployerHost)
             ok == r.result.outcome = "return"
         IN  /\ unattached' = r.unattached
             /\ attached' = r.attached
             /\ run' = [run EXCEPT !.pc = run_continue("attach_volume", ok),
                                   !.steps = Stepped("attach_volume", ok),
                                   !.volume = IF ok THEN r.result.value ELSE @]
    /\ UNCHANGED <<loops, last, procs, directories, filesystems, mounts>>

\* device = api.get_device_path(volume.blockdevice_id)
RunGetDevicePath ==
    /\ run.pc = "get_device_path"
    /\ \E volumes \in list_volumes(unattached, attached) :
         LET r == get_device_path(volumes, loops, run.volume.blockdevice_id)
             ok == r.result.outcome = "return"
         IN  /\ loops' = r.loops
             /\ run' = [run EXCEPT !.pc = run_continue("get_device_path", ok),
                                   !.steps = Stepped("get_device_path", ok),
                                   !.device = IF ok THEN r.result.value ELSE @]
    /\ UNCHANGED <<unattached, attached, last, procs,
                   directories, filesystems, mounts>>

\* self.mountpoint.makedirs()
RunMakedirs ==
    /\ run.pc = "makedirs"
    /\ LET r == makedirs_path(directories, run.mountpoint)
       IN  /\ directories' = r.directories
           /\ run' = [run EXCEPT !.pc = run_continue("makedirs", r.ok),
                                 !.steps = Stepped("makedirs", r.ok),
                                 !.mountpoint_existed =
                                     run.mountpoint \in directories]
    /\ UNCHANGED <<fs, last, procs, filesystems, mounts>>

\* check_output(["mkfs", "-t", "ext4", device.path]): mkfs may exit non-zero.
RunMkfs ==
    /\ run.pc = "mkfs"
    /\ \E ok \in BOOLEAN :
         /\ filesystems' = IF ok THEN mkfs(filesystems, "ext4", run.device)
                           ELSE filesystems
         /\ run' = [run EXCEPT !.pc = run_continue("mkfs", ok),
                               !.steps = Stepped("mkfs", ok)]
    /\ UNCHANGED <<fs, last, procs, directories, mounts>>

\* check_output(["mount", device.path, self.mountpoint.path]): mount may exit
\* non-zero.
RunMount ==
    /\ run.pc = "mount"
    /\ \E ok \in BOOLEAN :
         /\ mounts' = IF ok THEN mount(mounts, filesystems, run.device,
                                       run.mountpoint)
                      ELSE mounts
         /\ run' = [run EXCEPT !.pc = run_continue("mount", ok),
                               !.steps = Stepped("mount", ok)]
    /\ UNCHANGED <<fs, last, procs, directories, filesystems>>

NextRun ==
    \/ Converge
    \/ RunCreateVolume
    \/ RunAttachVolume
    \/ RunGetDevicePath
    \/ RunMakedirs
    \/ RunMkfs
    \/ RunMount
    \/ \E id \in Ids : AttachVolume(id, ForeignHost)

SpecRun == InitRun /\ [][NextRun]_vars

\* --------------------------------------------------------- SpecFromPath
\* from_path on a root directory in any stage of initialisation, between
\* create_volume and attach_volume calls of the instances it has built.
RootStates ==
    {dirs \in SUBSET RootDirectories :
        \A path \in dirs : Len(path) > 1 => <<"root">> \in dirs}

InitFromPath ==
    /\ unattached = EmptyDir
    /\ attached = EmptyDir
    /\ loops = {}
    /\ last = NoCall
    /\ procs = NoProcs
    /\ directories \in RootStates
    /\ filesystems = EmptyDir
    /\ mounts = {}
    /\ run = NoRun

FromPath ==
    /\ LET r == from_path(directories, unattached, attached)
       IN  /\ directories' = r.directories
           /\ unattached' = r.unattached
           /\ attached' = r.attached
           /\ last' = Call("from_path", None, None, None, Return(r.api))
    /\ UNCHANGED <<loops, procs, filesystems, mounts, run>>

\* Some instance exists: from_path has run on this root.
Initialised == RootDirectories \subseteq directories

NextFromPath ==
    \/ FromPath
    \/ Initialised /\ \E size \in Sizes : CreateVolume(size)
    \/ Initialised /\ \E id \in Ids, host \in Hosts : AttachVolume(id, host)

SpecFromPath == InitFromPath /\ [][NextFromPath]_vars

\* ------------------------------------------------------------- SpecTree
\* list_volumes on a directory tree nobody is changing.  The trees are those
\* the calls can leave: every identifier names at most one file, and a host
\* directory may be empty (attach_volume makes it before it moves the file).
Placements ==
    {[place |-> None, size |-> NoSize]}
        \cup {[place |-> place, size |-> size] :
                 place \in {"unattached"} \cup Hosts, size \in Sizes}

TreeOf(placement, empty) ==
    [unattached |->
        [id \in {id \in Ids : placement[id].place = "unattached"} |->
            placement[id].size],
     attached |->
        [host \in empty \cup {host \in Hosts :
                                 \E id \in Ids : placement[id].place = host} |->
            [id \in {id \in Ids : placement[id].place = host} |->
                placement[id].size]]]

InitTree ==
    /\ \E placement \in [Ids -> Placements], empty \in SUBSET Hosts :
         /\ unattached = TreeOf(placement, empty).unattached
         /\ attached = TreeOf(placement, empty).attached
    /\ loops = {}
    /\ last = NoCall
    /\ procs = NoProcs
    /\ directories = RootDirectories
    /\ filesystems = EmptyDir
    /\ mounts = {}
    /\ run = NoRun

NextTree == ListVolumes

SpecTree == InitTree /\ [][NextTree]_vars

\* ------------------------------------------------------------ SpecBatch
\* One pass whose batch holds the creates of two datasets.  run is synchronous,
\* so InParallel executes the runs one after the other, in the order of the
\* batch, and goes on with the next when one has raised.
SiblingDatasetId == RunDatasetId + 1

BatchConfigurations ==
    {Deployment({Node(DeployerHost,
                      [d \in {RunDatasetId, SiblingDatasetId} |->
                          Manifestation(
                              SizedDataset(d, IF d = RunDatasetId THEN first
                                              ELSE second),
                              TRUE)])}) :
        first \in Sizes \cup {NoSize}, second \in Sizes}

\* The mountpoint of the first dataset may be there already.
BatchDirectories ==
    {RootDirectories,
     RootDirectories \cup {<<"flocker">>, <<"flocker", RunDatasetId>>}}

InitBatch ==
    /\ unattached = EmptyDir
    /\ attached = EmptyDir
    /\ loops = {}
    /\ last = NoCall
    /\ procs = NoProcs
    /\ directories \in BatchDirectories
    /\ filesystems = EmptyDir
    /\ mounts = {}
    /\ \E desired \in BatchConfigurations :
         run = [NoRun EXCEPT !.desired = desired]

\* What is kept of a run that has ended.
Ended(r) ==
    [dataset |-> r.dataset, pc |-> r.pc, steps |-> r.steps,
     volume |-> r.volume, device |-> r.device, mountpoint |-> r.mountpoint]

\* InParallel: the run of the next change of the batch begins, whether the
\* run before it returned or raised.
RunSibling ==
    /\ run.pc \in {"succeeded", "failed"}
    /\ Len(run.done) + 1 < Len(run.changes)
    /\ LET change == run.changes[Len(run.done) + 2]
       IN  run' = [run EXCEPT !.done = Append(@, Ended(run)),
                              !.pc = RunSteps[1],
                              !.dataset = change.dataset,
                              !.mountpoint = change.mountpoint,
                              !.steps = <<>>,
                              !.volume = NoVolume,
                              !.device = NoDevice,
                              !.mountpoint_existed = FALSE]
    /\ UNCHANGED <<fs, last, procs, directories, filesystems, mounts>>

NextBatch ==
    \/ run.pc = "idle" /\ Converge
    \/ RunSibling
    \/ RunCreateVolume
    \/ RunAttachVolume
    \/ RunGetDevicePath
    \/ RunMakedirs
    \/ RunMkfs
    \/ RunMount

SpecBatch == InitBatch /\ [][NextBatch]_vars

\* =============================================================== claims
\* The host directory holding the file of an attached volume.
HostOf(a, id) == CHOOSE h \in DOMAIN a : id \in DOMAIN a[h]

\* The positions of the records of volume `id` in a list of volumes.
Positions(volumes, id) ==
    {i \in 1..Len(volumes) : volumes[i].blockdevice_id = id}

\* The host directories that hold a file named `id`.
HostsOf(a, id) == {h \in DOMAIN a : id \in DOMAIN a[h]}

\* No two records of a list give one identifier two different hosts.
OneHostPerId(volumes) ==
    \A i, j \in 1..Len(volumes) :
        (/\ volumes[i].blockdevice_id = volumes[j].blockdevice_id
         /\ volumes[i].host # None
         /\ volumes[j].host # None) => volumes[i].host = volumes[j].host

\* Caller p has completed the call `op`.
Completed(p, op) ==
    procs[p].pc = "idle" /\ procs[p].op = op /\ procs[p].outcome # None

\* C1: under every interleaving of create_volume, attach_volume,
\* get_device_path and list_volumes, the file of a volume lies in at most one
\* host directory, and no list built or returned by list_volumes gives one
\* identifier two different hosts.
C1_AtMostOneHost ==
    /\ \A id \in AttachedIds(attached) :
          Cardinality(HostsOf(attached, id)) = 1
    /\ \A p \in Procs :
          /\ OneHostPerId(procs[p].volumes)
          /\ (Completed(p, "list_volumes") /\ procs[p].outcome = "return")
                => OneHostPerId(procs[p].value)

\* A returned list that raced with an attach_volume: it holds the volume as
\* unattached and as attached.
C1_Witness ==
    \E p \in Procs :
        /\ Completed(p, "list_volumes")
        /\ procs[p].outcome = "return"
        /\ \E i, j \in 1..Len(procs[p].value) :
              /\ procs[p].value[i].blockdevice_id =
                    procs[p].value[j].blockdevice_id
              /\ procs[p].value[i].host = None
              /\ procs[p].value[j].host # None

\* C8: of two attach_volume calls on one volume, run concurrently with the
\* same or with different hosts, at most one returns.
C8_AtMostOneAttachSucceeds ==
    \A p, q \in Procs :
        (/\ p # q
         /\ Completed(p, "attach_volume")
         /\ Completed(q, "attach_volume")
         /\ procs[p].blockdevice_id = procs[q].blockdevice_id)
        => ~(procs[p].outcome = "return" /\ procs[q].outcome = "return")

\* Both calls began while the volume was unattached, with different hosts;
\* one has returned and the other has failed.
C8_Witness ==
    \E p, q \in Procs :
        /\ p # q
        /\ Completed(p, "attach_volume")
        /\ Completed(q, "attach_volume")
        /\ procs[p].blockdevice_id = procs[q].blockdevice_id
        /\ procs[p].host # procs[q].host
        /\ procs[p].unattached_at_call
        /\ procs[q].unattached_at_call
        /\ procs[p].outcome = "return"
        /\ procs[q].outcome # "return"

\* C9: of two attach_volume calls that both began on the same unattached
\* volume and ran concurrently, the one that does not win the move fails with
\* AlreadyAttachedVolume and with no other error.
C9_LoserAlreadyAttached ==
    \A p, q \in Procs :
        (/\ p # q
         /\ Completed(p, "attach_volume")
         /\ Completed(q, "attach_volume")
         /\ procs[p].blockdevice_id = procs[q].blockdevice_id
         /\ procs[p].unattached_at_call
         /\ procs[q].unattached_at_call
         /\ procs[p].outcome = "return")
        => procs[q].outcome = "AlreadyAttachedVolume"

\* C2: create_volume(s) returns a volume of size s with no host, and the
\* list_volumes() that follows contains that very record.
C2_CreatedIsListed ==
    last.op = "create_volume" =>
        /\ last.outcome = "return"
        /\ last.value.size = last.size
        /\ last.value.host = None
        /\ \A volumes \in list_volumes(unattached, attached) :
              \E i \in 1..Len(volumes) : volumes[i] = last.value

C2_Witness ==
    /\ last.op = "create_volume"
    /\ last.size = 2
    /\ Cardinality(AllIds(unattached, attached)) = 2

\* C3: attach_volume(v.id, h) on an unattached volume v returns v with host
\* set to h, and the list_volumes() that follows holds v exactly once, attached
\* to h (so no longer unattached).
C3_Step ==
    (last'.op = "attach_volume" /\ last'.blockdevice_id \in DOMAIN unattached) =>
        LET id == last'.blockdevice_id
            v == BlockDeviceVolume(id, unattached[id], None)
        IN  /\ last'.outcome = "return"
            /\ last'.value = [v EXCEPT !.host = last'.host]
            /\ \A volumes \in list_volumes(unattached', attached') :
                  /\ Cardinality(Positions(volumes, id)) = 1
                  /\ \A i \in Positions(volumes, id) :
                        volumes[i] = [v EXCEPT !.host = last'.host]

\* C3, as a property of every step: every attach_volume of an unattached
\* volume satisfies C3_Step.
C3_AttachUnattached == [][C3_Step]_vars

C3_Witness ==
    /\ last.op = "attach_volume"
    /\ last.outcome = "return"
    /\ last.value.size = 2
    /\ Cardinality(DOMAIN attached[last.host]) = 2

\* C4: attach_volume on a volume that has a host raises AlreadyAttachedVolume
\* carrying the identifier, for the owner as for any other requested host, and
\* changes nothing of the backend's state.
C4_Step ==
    (last'.op = "attach_volume"
        /\ last'.blockdevice_id \in AttachedIds(attached)) =>
        /\ last'.outcome = "AlreadyAttachedVolume"
        /\ last'.value = last'.blockdevice_id
        /\ fs' = fs

\* C4, as a property of every step: every attach_volume of an attached volume
\* raises AlreadyAttachedVolume and changes nothing.
C4_AttachAttached == [][C4_Step]_vars

C4_Witness ==
    /\ last.op = "attach_volume"
    /\ last.outcome = "AlreadyAttachedVolume"
    /\ last.blockdevice_id \in AttachedIds(attached)
    /\ HostOf(attached, last.blockdevice_id) # last.host

\* C5: attach_volume and get_device_path with an identifier no volume has
\* raise UnknownVolume carrying that identifier, and change nothing.
C5_Step ==
    (last'.op \in {"attach_volume", "get_device_path"}
        /\ last'.blockdevice_id \notin AllIds(unattached, attached)) =>
        /\ last'.outcome = "UnknownVolume"
        /\ last'.value = last'.blockdevice_id
        /\ fs' = fs

\* C5, as a property of every step: every attach_volume or get_device_path
\* of an unknown identifier raises UnknownVolume and changes nothing.
C5_UnknownVolume == [][C5_Step]_vars

C5_Witness ==
    /\ last.op = "attach_volume"
    /\ last.outcome = "UnknownVolume"
    /\ last.blockdevice_id \notin AllIds(unattached, attached)
    /\ AllIds(unattached, attached) # {}

\* C6: get_device_path on an existing volume without a host raises
\* UnattachedVolume carrying the identifier, creates no loopback association
\* and leaves the volume unattached.
C6_Step ==
    (last'.op = "get_device_path"
        /\ last'.blockdevice_id \in DOMAIN unattached) =>
        /\ last'.outcome = "UnattachedVolume"
        /\ last'.value = last'.blockdevice_id
        /\ loops' = loops
        /\ unattached' = unattached
        /\ attached' = attached

\* C6, as a property of every step: every get_device_path of an unattached
\* volume raises UnattachedVolume and associates no loop device.
C6_UnattachedVolume == [][C6_Step]_vars

C6_Witness ==
    /\ last.op = "get_device_path"
    /\ last.outcome = "UnattachedVolume"
    /\ last.blockdevice_id \in DOMAIN unattached
    /\ loops # {}

\* C7: sequential get_device_path calls on an attached volume are idempotent:
\* a call creates the association only when the file has none, it returns the
\* locator of the file's one association, an existing association is the one
\* returned, and no step ever drops or replaces an association.
C7_Step ==
    /\ loops \subseteq loops'
    /\ (last'.op = "get_device_path"
          /\ last'.blockdevice_id \in AttachedIds(attached)) =>
          LET id == last'.blockdevice_id
              path == <<HostOf(attached, id), id>>
          IN  /\ last'.outcome = "return"
              /\ Cardinality(Associated(loops', path)) = 1
              /\ last'.value = SortedSeq(Associated(loops', path))
              /\ Len(last'.value) = 1
              /\ Associated(loops, path) # {} => loops' = loops
              /\ Associated(loops, path) = {} =>
                    \E l \in loops' : l.file = path /\ loops' = loops \cup {l}
              /\ (last.op = "get_device_path" /\ last.outcome = "return"
                    /\ last.blockdevice_id = id) => last'.value = last.value

\* C7, as a property of every step: get_device_path of an attached volume
\* returns the locator of its single association, created at most once.
C7_GetDevicePathIdempotent == [][C7_Step]_vars

C7_Witness ==
    /\ last.op = "get_device_path"
    /\ last.outcome = "return"
    /\ Cardinality(loops) = 2
    /\ \A l \in loops : Cardinality(Associated(loops, l.file)) = 1

\* C10: discover_local_state of the deployer named H returns a NodeState for
\* H whose manifestations are exactly one primary manifestation per volume
\* attached to H, and nothing for unattached volumes or those of other hosts.
C10_DiscoverLocalState ==
    last.op = "discover_local_state" =>
        LET ms == last.value.manifestations
            here == IF last.host \in DOMAIN attached
                    THEN DOMAIN attached[last.host] ELSE {}
        IN  /\ last.outcome = "return"
            /\ last.value.hostname = last.host
            /\ Len(ms) = Cardinality(here)
            /\ {ms[i].dataset.dataset_id : i \in 1..Len(ms)} = here
            /\ \A i \in 1..Len(ms) : ms[i].primary = TRUE
            /\ here = {} => ms = <<>>

C10_Witness ==
    /\ last.op = "discover_local_state"
    /\ Len(last.value.manifestations) = 1
    /\ Cardinality(AttachedIds(attached)) = 2

\* ------------------------------------- calculate_necessary_state_changes
\* The call under SpecCalc has returned a batch.
Calculated ==
    /\ last.op = "calculate_necessary_state_changes"
    /\ last.outcome = "return"

\* The manifestations the desired configuration gives the deployer's host.
ConfiguredHere ==
    UNION {{n.manifestations[d] : d \in DOMAIN n.manifestations} :
           n \in {n \in last.desired_configuration.nodes :
                     n.hostname = last.hostname}}

\* The manifestations it gives the other hosts.
ConfiguredElsewhere ==
    UNION {{n.manifestations[d] : d \in DOMAIN n.manifestations} :
           n \in {n \in last.desired_configuration.nodes :
                     n.hostname # last.hostname}}

\* Manifestation m is in local_state.manifestations, compared by dataset id
\* and primary flag.
ManifestedLocally(m) ==
    \E i \in 1..Len(last.local_state.manifestations) :
        /\ last.local_state.manifestations[i].dataset.dataset_id
               = m.dataset.dataset_id
        /\ last.local_state.manifestations[i].primary = m.primary

\* The positions of the batch holding an action for dataset id d.
ActionsFor(d) ==
    {i \in 1..Len(last.value.changes) :
        last.value.changes[i].dataset.dataset_id = d}

\* C11: the batch holds exactly one CreateBlockDeviceDataset per manifestation
\* configured for the deployer's host and absent from
\* local_state.manifestations, with that manifestation's dataset and the
\* mountpoint <mount root>/<dataset id>, and nothing else.
C11_OneCreatePerMissingManifestation ==
    last.op = "calculate_necessary_state_changes" =>
        /\ last.outcome = "return"
        /\ \A m \in ConfiguredHere :
               ~ManifestedLocally(m) =>
                   \E i \in 1..Len(last.value.changes) :
                       /\ ActionsFor(m.dataset.dataset_id) = {i}
                       /\ last.value.changes[i] =
                              [action |-> "CreateBlockDeviceDataset",
                               dataset |-> m.dataset,
                               mountpoint |->
                                   <<"flocker", m.dataset.dataset_id>>]
        /\ \A i \in 1..Len(last.value.changes) :
               \E m \in ConfiguredHere :
                   /\ ~ManifestedLocally(m)
                   /\ last.value.changes[i].dataset = m.dataset

\* Two datasets are configured for the host, one of them is there already,
\* and the batch holds the one action for the other.
C11_Witness ==
    /\ Calculated
    /\ Cardinality(ConfiguredHere) = 2
    /\ \E m \in ConfiguredHere : ManifestedLocally(m)
    /\ Len(last.value.changes) = 1

\* C12: a manifestation configured for the host that is already in
\* local_state.manifestations (same dataset id, same primary flag) gets no
\* action.
C12_NoCreateForManifested ==
    Calculated =>
        \A m \in ConfiguredHere :
            ManifestedLocally(m) => ActionsFor(m.dataset.dataset_id) = {}

\* The configured dataset has a maximum size, the discovered one has none, and
\* still it counts as manifested; the batch is not empty for other reasons.
C12_Witness ==
    /\ Calculated
    /\ \E m \in ConfiguredHere :
           /\ ManifestedLocally(m)
           /\ m.dataset.maximum_size # NoSize
    /\ Len(last.value.changes) = 1

\* C13: every action is for a manifestation configured for the deployer's own
\* host, whatever other nodes are configured with, and the batch is empty when
\* the desired configuration has no node of that hostname.
C13_OwnNodeOnly ==
    Calculated =>
        /\ \A i \in 1..Len(last.value.changes) :
               \E m \in ConfiguredHere :
                   last.value.changes[i].dataset = m.dataset
        /\ (\A n \in last.desired_configuration.nodes :
                n.hostname # last.hostname)
               => last.value.changes = <<>>

\* Another node is configured with a dataset this host is not, none of it is
\* manifested locally, and this host's batch has its own single action.
C13_Witness ==
    /\ Calculated
    /\ \E m \in ConfiguredElsewhere :
           /\ \A c \in ConfiguredHere :
                  c.dataset.dataset_id # m.dataset.dataset_id
           /\ ~ManifestedLocally(m)
    /\ Len(last.value.changes) = 1

\* C14: the batches the call may return are the same for every
\* current_cluster_state.
C14_IndependentOfClusterState ==
    last.op = "calculate_necessary_state_changes" =>
        \A current_cluster_state \in ClusterStates :
            [outcome |-> last.outcome, value |-> last.value]
                \in calculate_necessary_state_changes(
                        last.hostname, last.local_state,
                        last.desired_configuration, current_cluster_state)

\* The cluster state reports, on this host, a dataset the call creates.
C14_Witness ==
    /\ Calculated
    /\ \E n \in last.current_cluster_state.nodes :
           /\ n.hostname = last.hostname
           /\ \E d \in DOMAIN n.manifestations : ActionsFor(d) # {}

\* C15: every action of the batch is a CreateBlockDeviceDataset for a dataset
\* configured for the host; a manifestation in local_state that the desired
\* configuration does not give the host gets no action.
C15_OnlyCreates ==
    Calculated =>
        /\ \A i \in 1..Len(last.value.changes) :
               /\ last.value.changes[i].action = "CreateBlockDeviceDataset"
               /\ \E m \in ConfiguredHere :
                      m.dataset.dataset_id
                          = last.value.changes[i].dataset.dataset_id
        /\ \A j \in 1..Len(last.local_state.manifestations) :
               (\A m \in ConfiguredHere :
                    m.dataset.dataset_id
                        # last.local_state.manifestations[j].dataset.dataset_id)
                   => ActionsFor(last.local_state.manifestations[j]
                                     .dataset.dataset_id) = {}

\* A dataset is manifested locally and configured nowhere, while the batch
\* creates another one.
C15_Witness ==
    /\ Calculated
    /\ \E j \in 1..Len(last.local_state.manifestations) :
           \A m \in ConfiguredHere \cup ConfiguredElsewhere :
               m.dataset.dataset_id
                   # last.local_state.manifestations[j].dataset.dataset_id
    /\ Len(last.value.changes) = 1

\* -------------------------------------------- CreateBlockDeviceDataset.run
\* The last statement run executed, and whether statement i returned.
LastStep == run.steps[Len(run.steps)]
StepReturned(i) == run.steps[i].ok

\* Every listing shows the volume of the run attached to the deployer's host.
RunVolumeAttachedHere ==
    \A volumes \in list_volumes(unattached, attached) :
        \E i \in 1..Len(volumes) :
            /\ volumes[i].blockdevice_id = run.volume.blockdevice_id
            /\ volumes[i].host = DeployerHost

\* C16: once run has signalled completion, its last statement was a mount
\* that succeeded and the mount table holds (device path of the volume,
\* mountpoint of the action, "ext4"); if the backend held no volume when the
\* run began, every listing is the one volume of the dataset's maximum size,
\* attached to the deployer's host.
C16_RunCreatesAttachesMounts ==
    run.pc = "succeeded" =>
        /\ LastStep = [step |-> "mount", ok |-> TRUE]
        /\ run.device =
               device_for_path(loops, <<DeployerHost,
                                        run.volume.blockdevice_id>>)
        /\ <<run.device, run.mountpoint, "ext4">> \in mounts
        /\ run.prior = {} =>
               \A volumes \in list_volumes(unattached, attached) :
                   /\ Len(volumes) = 1
                   /\ volumes[1].size = run.dataset.maximum_size
                   /\ volumes[1].host = DeployerHost

\* A run on a backend without volumes has completed.
C16_Witness ==
    /\ run.pc = "succeeded"
    /\ run.prior = {}
    /\ run.dataset.maximum_size = 2
    /\ Cardinality(AllIds(unattached, attached)) = 1

\* C17: the statements run has executed are the first ones of create_volume,
\* attach_volume, get_device_path, makedirs, mkfs, mount, in that order; all
\* but the last returned; run is at the next one only if the last returned
\* too, and after a failure the later statements have left no trace: no
\* filesystem on the device unless mkfs ran, no mount unless mount ran.
C17_StepsInOrder ==
    run.pc # "idle" =>
        /\ Len(run.steps) <= Len(RunSteps)
        /\ \A i \in 1..Len(run.steps) :
               /\ run.steps[i].step = RunSteps[i]
               /\ i < Len(run.steps) => StepReturned(i)
        /\ run.pc \in {RunSteps[i] : i \in 1..Len(RunSteps)} =>
               /\ run.pc = RunSteps[Len(run.steps) + 1]
               /\ \A i \in 1..Len(run.steps) : StepReturned(i)
        /\ run.pc = "succeeded" =>
               /\ Len(run.steps) = Len(RunSteps)
               /\ \A i \in 1..Len(run.steps) : StepReturned(i)
        /\ run.pc = "failed" => ~StepReturned(Len(run.steps))
        /\ (run.device # NoDevice /\ run.device \in DOMAIN filesystems)
               => (Len(run.steps) >= 5 /\ StepReturned(5))
        /\ (\E mt \in mounts : mt[1] = run.device)
               => (Len(run.steps) = 6 /\ StepReturned(6))

\* A run failed at makedirs, after three statements that returned.
C17_Witness ==
    /\ run.pc = "failed"
    /\ Len(run.steps) = 4
    /\ LastStep.step = "makedirs"

\* C18: when mkfs or mount has raised, run has failed rather than completed,
\* the volume it created is still listed, attached to the deployer's host, and
\* its device is not mounted.
C18_NoRollback ==
    (/\ run.steps # <<>>
     /\ LastStep.step \in {"mkfs", "mount"}
     /\ ~LastStep.ok)
        => /\ run.pc = "failed"
           /\ RunVolumeAttachedHere
           /\ \A mt \in mounts : mt[1] # run.device

\* mkfs succeeded and mount failed.
C18_Witness ==
    /\ run.pc = "failed"
    /\ LastStep = [step |-> "mount", ok |-> FALSE]
    /\ run.device \in DOMAIN filesystems

\* C19: the pass after a run that failed at mkfs or mount discovers a
\* manifestation of the run's dataset and its batch holds no
\* CreateBlockDeviceDataset for it.
C19_NextPassSkipsCreated ==
    run.previous \in {"mkfs", "mount"} =>
        /\ \E i \in 1..Len(run.local_state.manifestations) :
               run.local_state.manifestations[i].dataset.dataset_id
                   = RunDatasetId
        /\ \A i \in 1..Len(run.changes) :
               run.changes[i].dataset.dataset_id # RunDatasetId

\* --------------------------------------------------------------- from_path
C20_Step ==
    last'.op = "from_path" =>
        /\ RootDirectories \subseteq directories'
        /\ RootDirectories \subseteq directories => directories' = directories
        /\ unattached' = unattached
        /\ attached' = attached
        /\ list_volumes(unattached', attached')
               = list_volumes(unattached, attached)
        /\ last'.value = [root_path |-> <<"root">>,
                          _unattached_directory |-> <<"root", "unattached">>,
                          _attached_directory |-> <<"root", "attached">>]

\* C20: from_path leaves <root>/unattached and <root>/attached in place,
\* changes nothing when they exist, never changes the volumes, so that the
\* listing after it is the listing before it, and the instance it returns has
\* no attribute beyond the paths derived from the root.
C20_FromPathIdempotent == [][C20_Step]_vars

\* from_path has run on a root holding an unattached and an attached volume.
C20_Witness ==
    /\ last.op = "from_path"
    /\ unattached # EmptyDir
    /\ attached # EmptyDir

\* ------------------------------------------------------------ list_volumes
\* The record each file of the tree stands for.
FileRecords ==
    {BlockDeviceVolume(id, unattached[id], None) : id \in DOMAIN unattached}
        \cup UNION {{BlockDeviceVolume(id, attached[host][id], host) :
                        id \in DOMAIN attached[host]} :
                    host \in DOMAIN attached}

\* C21: the list list_volumes returns on a tree at rest holds the record of
\* each file of <root>/unattached (id, size, no host) and of each file of
\* <root>/attached/<host> (id, size, host), each once, and nothing else; an
\* empty host directory contributes nothing.
C21_ListMatchesTree ==
    (last.op = "list_volumes" /\ last.outcome = "return") =>
        /\ Range(last.value) = FileRecords
        /\ Len(last.value) = Cardinality(FileRecords)

\* A listing of a tree with an unattached file, an attached file and an empty
\* host directory.
C21_Witness ==
    /\ last.op = "list_volumes"
    /\ DOMAIN unattached # {}
    /\ \E host \in DOMAIN attached : DOMAIN attached[host] = {}
    /\ \E host \in DOMAIN attached : DOMAIN attached[host] # {}
    /\ Len(last.value) = 2

\* ------------------------------------------------- run: the mountpoint
\* C22: when the mountpoint directory existed as run reached
\* self.mountpoint.makedirs(), that statement returned and run went on to
\* mkfs.
C22_MakedirsIfAbsent ==
    (Len(run.steps) >= 4 /\ run.mountpoint_existed) =>
        /\ run.steps[4] = [step |-> "makedirs", ok |-> TRUE]
        /\ Len(run.steps) = 4 => run.pc = "mkfs"

\* C23: once run has completed for a dataset, the volume it attached bears
\* the dataset's id, and discover_local_state on the deployer's host reports
\* a manifestation of that dataset.
C23_VolumeIdIsDatasetId ==
    run.pc = "succeeded" =>
        /\ run.volume.blockdevice_id = run.dataset.dataset_id
        /\ \A volumes \in list_volumes(unattached, attached) :
               \E manifestation \in
                      Range(discover_local_state(volumes, DeployerHost)
                                .value.manifestations) :
                   manifestation.dataset.dataset_id = run.dataset.dataset_id

\* ------------------------------------------------------------ convergence
\* C24: as long as no run has failed, the pass after a run that completed
\* has an empty batch, and no more than one volume has been created for the
\* one dataset of the desired configuration.
C24_Fixpoint ==
    (~run.failed_before /\ run.pc # "failed") =>
        /\ run.previous = "succeeded" => run.changes = <<>>
        /\ Cardinality(AllIds(unattached, attached)) <= 1

\* -------------------------------------------------------- volume lifecycle
\* Every volume listed before the step is listed after it with the same id
\* and size, and with the same host if it had one.
C25_Step ==
    \A before \in list_volumes(unattached, attached) :
    \A after \in list_volumes(unattached', attached') :
        \A i \in 1..Len(before) :
            \E j \in 1..Len(after) :
                /\ after[j].blockdevice_id = before[i].blockdevice_id
                /\ after[j].size = before[i].size
                /\ before[i].host # None => after[j].host = before[i].host

\* C25: a listed volume stays listed with its id and size, and an attached
\* volume stays attached to its host, over every call.
C25_Monotonic == [][C25_Step]_vars

\* A volume attached to one host has survived an attach_volume to the other
\* host and the creation of a second volume.
C25_Witness ==
    /\ last.op = "attach_volume"
    /\ last.outcome = "AlreadyAttachedVolume"
    /\ \E host \in DOMAIN attached :
           /\ host # last.host
           /\ last.blockdevice_id \in DOMAIN attached[host]
    /\ DOMAIN unattached # {}

\* The identifier create_volume returns is that of no volume of the tree
\* before the call, and no listing after a call holds an identifier twice.
C26_Step ==
    /\ last'.op = "create_volume" =>
           last'.value.blockdevice_id \notin AllIds(unattached, attached)
    /\ \A volumes \in list_volumes(unattached', attached') :
           \A i, j \in 1..Len(volumes) :
               volumes[i].blockdevice_id = volumes[j].blockdevice_id => i = j

\* C26: create_volume returns an id no earlier volume has, attached or not,
\* and the ids of every listing are pairwise distinct.
C26_UniqueIds == [][C26_Step]_vars

\* A second volume has been created after the first was attached.
C26_Witness ==
    /\ last.op = "create_volume"
    /\ AttachedIds(attached) # {}
    /\ Cardinality(AllIds(unattached, attached)) = 2

\* The records of the volumes of a tree, whatever the order of a listing.
Listable(u, a) == UNION {Range(volumes) : volumes \in list_volumes(u, a)}

\* create_volume adds the record it returns and changes no other; an
\* attach_volume(v, h) that returns replaces v's record by one that differs in
\* the host only, which is h, and changes no other.
C27_Step ==
    /\ last'.op = "create_volume" =>
           Listable(unattached', attached')
               = Listable(unattached, attached) \cup {last'.value}
    /\ (last'.op = "attach_volume" /\ last'.outcome = "return") =>
           /\ {r \in Listable(unattached', attached') :
                  r.blockdevice_id # last'.blockdevice_id}
                  = {r \in Listable(unattached, attached) :
                        r.blockdevice_id # last'.blockdevice_id}
           /\ \E r \in Listable(unattached, attached) :
                  /\ r.blockdevice_id = last'.blockdevice_id
                  /\ {n \in Listable(unattached', attached') :
                         n.blockdevice_id = last'.blockdevice_id}
                         = {[r EXCEPT !.host = last'.host]}

\* C27: create_volume and a successful attach_volume change the record of
\* their own volume only.
C27_Frame == [][C27_Step]_vars

\* A volume has been attached while another one, unattached, stayed as it
\* was.
C27_Witness ==
    /\ last.op = "attach_volume"
    /\ last.outcome = "return"
    /\ DOMAIN unattached # {}

\* ------------------------------------------------- discovery and diffing
\* The volumes attached to the deployer's host.
AttachedHere(a) ==
    IF DeployerHost \in DOMAIN a THEN DOMAIN a[DeployerHost] ELSE {}

\* A pass (discover_local_state, then calculate_necessary_state_changes)
\* leaves the tree, the loop devices, the directories, filesystems and mounts
\* as they were; the state it discovers has one manifestation per volume now
\* attached to the host, whatever earlier passes found; the batch is a result
\* of calculate_necessary_state_changes on that state and the desired
\* configuration alone.
C28_Step ==
    (run.pc \in {"idle", "succeeded", "failed"} /\ run'.pc # run.pc) =>
        /\ fs' = fs
        /\ <<directories', filesystems', mounts'>>
               = <<directories, filesystems, mounts>>
        /\ {m.dataset.dataset_id :
               m \in Range(run'.local_state.manifestations)}
               = AttachedHere(attached)
        /\ Len(run'.local_state.manifestations)
               = Cardinality(AttachedHere(attached))
        /\ \A current_cluster_state \in ClusterStates :
               \E r \in calculate_necessary_state_changes(
                            DeployerHost, run'.local_state, run.desired,
                            current_cluster_state) :
                   r.value.changes = run'.changes

\* C28: discover_local_state and calculate_necessary_state_changes change
\* nothing of the backend, and what is discovered is the backend's state at
\* the time of the call.
C28_PureDiscoveryAndDiff == [][C28_Step]_vars

\* The third pass: it finds the two volumes that the runs of the first two
\* passes attached.
C28_Witness ==
    /\ run.steps = <<>>
    /\ run.previous = "makedirs"
    /\ Len(run.local_state.manifestations) = 2

\* ------------------------------------------------------------ concurrency
\* C29: a list that list_volumes returns while another caller's
\* attach_volume of volume v is under way or done holds v at most once
\* (unattached or attached, not both).
C29_ConsistentSnapshot ==
    \A p, q \in Procs :
        (/\ p # q
         /\ Completed(p, "list_volumes")
         /\ procs[p].outcome = "return"
         /\ procs[q].op = "attach_volume")
        => Cardinality({i \in 1..Len(procs[p].value) :
                           procs[p].value[i].blockdevice_id
                               = procs[q].blockdevice_id}) <= 1

\* C30: when two get_device_path calls on one attached volume have both
\* returned, the volume's file has exactly one loop device and both calls
\* returned the same locator, that of the one device.
C30_OneAssociation ==
    \A p, q \in Procs :
        (/\ p # q
         /\ Completed(p, "get_device_path")
         /\ Completed(q, "get_device_path")
         /\ procs[p].blockdevice_id = procs[q].blockdevice_id
         /\ procs[p].outcome = "return"
         /\ procs[q].outcome = "return")
        => /\ procs[p].value = procs[q].value
           /\ Len(procs[p].value) = 1
           /\ \A host \in DOMAIN attached :
                  procs[p].blockdevice_id \in DOMAIN attached[host] =>
                      Cardinality(Associated(
                          loops, <<host, procs[p].blockdevice_id>>)) = 1

\* ------------------------------------------------ several volumes per host
\* The files of <root>/attached/<host>, none when the directory is missing.
HostFiles(a, host) == IF host \in DOMAIN a THEN DOMAIN a[host] ELSE {}

\* attach_volume of an unattached volume returns whatever the host holds
\* already; afterwards the host holds what it held and the volume, and every
\* listing reports each of them attached to the host.
C32_Step ==
    (last'.op = "attach_volume" /\ last'.blockdevice_id \in DOMAIN unattached) =>
        /\ last'.outcome = "return"
        /\ HostFiles(attached', last'.host)
               = HostFiles(attached, last'.host) \cup {last'.blockdevice_id}
        /\ \A volumes \in list_volumes(unattached', attached') :
               \A id \in HostFiles(attached', last'.host) :
                   \E i \in 1..Len(volumes) :
                       /\ volumes[i].blockdevice_id = id
                       /\ volumes[i].host = last'.host

\* C32: attach_volume succeeds for an unattached volume whether the host
\* directory is missing or holds volumes already, and all volumes of the host
\* are listed as attached to it.
C32_ManyVolumesPerHost == [][C32_Step]_vars

\* The second volume has been attached to a host.
C32_Witness ==
    /\ last.op = "attach_volume"
    /\ last.outcome = "return"
    /\ Cardinality(HostFiles(attached, last.host)) = 2
    /\ DOMAIN unattached = {}

\* ------------------------------------------------------ NodeState.paths
\* C33: the keys of `paths` in the NodeState discover_local_state returns
\* are the dataset ids of its manifestations, and each dataset id d maps to
\* /flocker/<d>, the mountpoint calculate_necessary_state_changes gives a
\* create for d.
C33_PathsPerManifestation ==
    (last.op = "discover_local_state" /\ last.outcome = "return") =>
        /\ DOMAIN last.value.paths
               = {m.dataset.dataset_id : m \in Range(last.value.manifestations)}
        /\ \A d \in DOMAIN last.value.paths :
               /\ last.value.paths[d] = <<"flocker", d>>
               /\ last.value.paths[d]
                      = creates(<<Manifestation(Dataset(d), TRUE)>>)[1]
                            .mountpoint

\* A discovered state with two manifestations, hence two paths.
C33_Witness ==
    /\ last.op = "discover_local_state"
    /\ Len(last.value.manifestations) = 2
    /\ Cardinality(DOMAIN last.value.paths) = 2

\* ------------------------------------------------------- sizes of creates
\* C34: every CreateBlockDeviceDataset of a returned batch carries a dataset
\* whose maximum size is a positive integer, not None.
C34_CreatesAreSized ==
    Calculated =>
        \A i \in 1..Len(last.value.changes) :
            /\ last.value.changes[i].dataset.maximum_size # NoSize
            /\ last.value.changes[i].dataset.maximum_size > 0

\* ------------------------------------------------------- runs of a batch
\* The two runs of the batch, once both have ended.
BatchEnded ==
    /\ Len(run.changes) = 2
    /\ Len(run.done) = 1
    /\ run.pc \in {"succeeded", "failed"}

BatchRuns == {run.done[1], Ended(run)}

\* The volume of run r is listed, attached to the deployer's host.
AttachedHereBy(r) ==
    \A volumes \in list_volumes(unattached, attached) :
        \E i \in 1..Len(volumes) :
            /\ volumes[i].blockdevice_id = r.volume.blockdevice_id
            /\ volumes[i].size = r.dataset.maximum_size
            /\ volumes[i].host = DeployerHost

\* C31: when both runs of a batch have ended and one has failed, at whatever
\* statement, the other was executed all the same, in either order; if its
\* dataset has a size, its own volume is attached to the deployer's host, and
\* if it completed, its mount is still in the mount table.
C31_IndependentRuns ==
    BatchEnded =>
        \A r, sibling \in BatchRuns :
            (/\ r.dataset # sibling.dataset
             /\ sibling.pc = "failed")
            => /\ r.steps # <<>>
               /\ r.dataset.maximum_size # NoSize =>
                      /\ Len(r.steps) >= 2
                      /\ r.steps[2] = [step |-> "attach_volume", ok |-> TRUE]
                      /\ AttachedHereBy(r)
               /\ r.pc = "succeeded" =>
                      <<r.device, r.mountpoint, "ext4">> \in mounts

\* The run that came first failed at mkfs, and the run after it completed.
C31_Witness ==
    /\ BatchEnded
    /\ run.done[1].pc = "failed"
    /\ run.done[1].steps[Len(run.done[1].steps)].step = "mkfs"
    /\ run.pc = "succeeded"

====
